---------------------------- MODULE Spec2Model ----------------------------
(***************************************************************************)
(* A model of limsanky/ctm_exps: the sampling driver (image_sample.py),   *)
(* the preconditioning wrappers and U-Net backbones (cm/networks.py) and   *)
(* the training driver's setup (cm_train.py).                              *)
(*                                                                         *)
(* The module holds four state machines over disjoint groups of variables. *)
(* Each has its own Init, Next and specification; a specification leaves   *)
(* the other machines' variables at their idle values.                     *)
(*   SpecSample / FairSpecSample : image_sample.main's loop and FID step   *)
(*   SpecPrecond                 : wrapper construction and forward        *)
(*   SpecUNet                    : SongUNet / DhariwalUNet                 *)
(*   SpecTrain                   : cm_train.main's model setup             *)
(***************************************************************************)
EXTENDS Integers, Sequences, FiniteSets, TLC

VARIABLES
    \* ---- image_sample.main ----
    s_args,             \* the parsed arguments the loop reads
    s_pc,               \* position in main
    itr,                \* main's local itr
    eval_num_samples,   \* main's local eval_num_samples (samples generated)
    files,              \* out_dir: the sample_{r}.npz files, r |-> images in arr_0
    count,              \* calculate_inception_stats' count at its assertion
    \* ---- a preconditioning wrapper (VPPrecond ... EDMPrecond_CTM) ----
    p_cfg,              \* the wrapper's constructor arguments
    p_pc,               \* "new", "ready", or how the last call ended
    p_call,             \* the arguments of the last forward call
    dtype,              \* forward's local dtype
    model_in,           \* what self.model was last called with
    calls,              \* backbone invocations made by the last forward
    F_x,                \* the backbone's output (per channel), its dtype in F_dtype
    F_dtype,
    D_x,                \* forward's return value (per channel)
    \* ---- a backbone (SongUNet or DhariwalUNet) ----
    u_cfg,              \* the constructor's arguments
    u_pc,               \* "new", "ready", "enc", "dec", or how the last call ended
    enc,                \* self.enc: <<[name, mod]>> in insertion order
    dec,                \* self.dec
    out_conv,           \* DhariwalUNet's out_conv (None for SongUNet)
    init_skips,         \* __init__'s skips list: what it held and what was popped
    f_in,               \* forward's arguments: which of noise_labels_s, x_T are given
    f_i,                \* forward's position in enc / dec
    u_x,                \* forward's x: its shape [c, h]
    skips,              \* forward's skips
    f_loc,              \* forward's other locals: aux, tmp, emb_mult, emb_s, emb_t
    pops,               \* skips.pop() calls made by forward
    \* ---- cm_train.main, up to the construction of CMTrainLoop ----
    t_args,             \* the parsed arguments the setup reads
    t_pc,               \* position in main
    model,              \* the student's parameters, in parameters() order
    teacher_model,      \* the teacher's parameters, <<>> for None
    target_model,       \* the target (EMA) model's parameters
    \* ---- a Conv2d called on its own ----
    c_mod,              \* the module
    c_pc,               \* "new", "returned", or how the call ended
    c_arg,              \* forward's argument: its shape [c, h]
    c_ret               \* forward's return value

sampleVars == <<s_args, s_pc, itr, eval_num_samples, files, count>>
precondVars == <<p_cfg, p_pc, p_call, dtype, model_in, calls, F_x, F_dtype, D_x>>

unetVars == <<u_cfg, u_pc, enc, dec, out_conv, init_skips, f_in, f_i, u_x, skips, f_loc, pops>>

trainVars == <<t_args, t_pc, model, teacher_model, target_model>>

convVars == <<c_mod, c_pc, c_arg, c_ret>>

vars == <<sampleVars, precondVars, unetVars, trainVars, convVars>>

None == "None"

Min(a, b) == IF a <= b THEN a ELSE b
Max(a, b) == IF a >= b THEN a ELSE b

\* The idle values of each machine's variables.
IdleSample ==
    /\ s_args = None /\ s_pc = "idle" /\ itr = 0 /\ eval_num_samples = 0
    /\ files = <<>> /\ count = 0

IdlePrecond ==
    /\ p_cfg = None /\ p_pc = "idle" /\ p_call = None /\ dtype = None
    /\ model_in = None /\ calls = 0 /\ F_x = None /\ F_dtype = None /\ D_x = None

IdleUNet ==
    /\ u_cfg = None /\ u_pc = "idle" /\ enc = <<>> /\ dec = <<>> /\ out_conv = None
    /\ init_skips = None /\ f_in = None /\ f_i = 0 /\ u_x = None /\ skips = <<>>
    /\ f_loc = None /\ pops = 0

IdleTrain ==
    /\ t_args = None /\ t_pc = "idle" /\ model = <<>> /\ teacher_model = <<>>
    /\ target_model = <<>>

IdleConv ==
    /\ c_mod = None /\ c_pc = "idle" /\ c_arg = <<>> /\ c_ret = <<>>

(***************************************************************************)
(*                        image_sample.py                                  *)
(***************************************************************************)

\* Bounds of the sampling model.
MaxBatch == 3
MaxSamples == 4
MaxRand == 2

\* itr saturates here. Only batch_size = 0 reaches it (itr <= MaxSamples for
\* every batch_size >= 1), and there itr * batch_size = 0 whatever itr is.
MaxItr == MaxSamples + 1

\* len(classes) of the fixed class list of train_classes == -2.
NumFixedClasses == 32
\* calculate_inception_stats' batch_size default.
StatsBatchSize == 100

BatchSizes == (-1 .. MaxBatch) \cup {NumFixedClasses}
SampleCounts == 0 .. MaxSamples
SaveFormats == {"png", "npz"}
TrainClasses == {-2, -1, 0}
RandNames == 0 .. (MaxRand - 1)

SampleArgs ==
    [batch_size : BatchSizes, eval_num_samples : SampleCounts,
     save_format : SaveFormats, class_cond : BOOLEAN, train_classes : TrainClasses]

\* while itr * args.batch_size < args.eval_num_samples
LoopCondOff(i, bs, n) == i * bs <= n
LoopCond(i, bs, n) == i * bs < n

\* generator.randn(batch_size, ...) raises for a negative dimension.
RandnRaises(bs) == bs < 0

\* assert args.batch_size % len(classes) == 0, on the train_classes == -2 path.
ClassAssertFails(a) ==
    /\ a.class_cond
    /\ ~(a.train_classes >= 0)
    /\ a.train_classes = -2
    /\ a.batch_size % NumFixedClasses # 0

\* np.savez(os.path.join(out_dir, f"sample_{r}.npz"), sample.numpy(), ...):
\* only with save_format == 'npz'; a file of the same name is overwritten.
SaveNpz(fs, fmt, r, n) ==
    IF fmt = "npz" THEN [x \in (DOMAIN fs) \cup {r} |-> IF x = r THEN n ELSE fs[x]]
    ELSE fs

EmptyDir == [x \in {} |-> 0]

\* The inner loop of calculate_inception_stats over one file's images, from
\* batch k on: returns the count after the file (or at the break).
RECURSIVE StatsFile(_, _, _, _)
StatsFile(images, k, cnt, num_samples) ==
    IF k >= ((images - 1) \div StatsBatchSize) + 1 THEN cnt
    ELSE LET mic == Max(0, Min(images, (k + 1) * StatsBatchSize) - k * StatsBatchSize)
             remaining == IF cnt + mic > num_samples THEN num_samples - cnt ELSE mic
             c2 == cnt + remaining
         IN IF c2 >= num_samples THEN c2
            ELSE StatsFile(images, k + 1, c2, num_samples)

\* The outer loop over glob's files (here in the order of r).
RECURSIVE StatsCount(_, _, _, _)
StatsCount(fs, todo, cnt, num_samples) ==
    IF todo = {} THEN cnt
    ELSE LET r == CHOOSE x \in todo : \A y \in todo : x <= y
             c2 == StatsFile(fs[r], 0, cnt, num_samples)
         IN IF fs[r] > 0 /\ c2 >= num_samples THEN c2
            ELSE StatsCount(fs, todo \ {r}, c2, num_samples)

InitSample ==
    /\ s_args \in SampleArgs
    /\ s_pc = "while"
    /\ itr = 0
    /\ eval_num_samples = 0
    /\ files = EmptyDir
    /\ count = 0
    /\ IdlePrecond /\ IdleUNet /\ IdleTrain /\ IdleConv

\* One pass of the while body (rank 0).
LoopIteration ==
    /\ s_pc = "while"
    /\ LoopCond(itr, s_args.batch_size, s_args.eval_num_samples)
    /\ IF RandnRaises(s_args.batch_size)
       THEN /\ s_pc' = "RuntimeError"
            /\ UNCHANGED <<itr, eval_num_samples, files>>
       ELSE IF ClassAssertFails(s_args)
       THEN /\ s_pc' = "AssertionError_classes"
            /\ UNCHANGED <<itr, eval_num_samples, files>>
       ELSE \E r \in RandNames :
            /\ files' = SaveNpz(files, s_args.save_format, r, s_args.batch_size)
            /\ eval_num_samples' = eval_num_samples + s_args.batch_size
            /\ itr' = Min(itr + 1, MaxItr)
            /\ s_pc' = "while"
    /\ UNCHANGED <<s_args, count>>
    /\ UNCHANGED <<precondVars, unetVars, trainVars, convVars>>

\* The loop condition is false: dist.barrier(), "sampling complete".
LoopExit ==
    /\ s_pc = "while"
    /\ ~LoopCond(itr, s_args.batch_size, s_args.eval_num_samples)
    /\ s_pc' = "sampled"
    /\ UNCHANGED <<s_args, itr, eval_num_samples, files, count>>
    /\ UNCHANGED <<precondVars, unetVars, trainVars, convVars>>

\* calculate_inception_stats(..., image_path=out_dir,
\* num_samples=args.eval_num_samples), cifar10 branch, up to its assertion.
InceptionStats ==
    /\ s_pc = "sampled"
    /\ count' = StatsCount(files, DOMAIN files, 0, s_args.eval_num_samples)
    /\ s_pc' = IF count' = s_args.eval_num_samples THEN "done" ELSE "AssertionError_count"
    /\ UNCHANGED <<s_args, itr, eval_num_samples, files>>
    /\ UNCHANGED <<precondVars, unetVars, trainVars, convVars>>

NextSample == LoopIteration \/ LoopExit \/ InceptionStats

SpecSample == InitSample /\ [][NextSample]_vars

\* main is one sequential thread: it keeps executing while it has a step.
FairSpecSample == InitSample /\ [][NextSample]_vars /\ WF_vars(NextSample)

(***************************************************************************)
(*                 Claims about image_sample.py                            *)
(***************************************************************************)

\* q = ceil(n / b), stated without division; n / 0 has no ceiling, and
\* nothing is asked of q then.
IsCeil(q, n, b) ==
    IF b > 0 THEN (q - 1) * b < n /\ n <= q * b
    ELSE IF b < 0 THEN q * b <= n /\ n < (q - 1) * b
    ELSE TRUE

LoopLeft == s_pc # "while"

LoopPost ==
    /\ IsCeil(itr, s_args.eval_num_samples, s_args.batch_size)
    /\ itr * s_args.batch_size >= s_args.eval_num_samples

\* The batch sizes with which every pass of the loop body completes.
BodyCompletes == s_args.batch_size > 0 /\ ~ClassAssertFails(s_args)

\* C8 as stated: for every batch_size the parser admits (any integer), the
\* sampling loop is left, and when it is left it has run exactly
\* ceil(eval_num_samples / batch_size) iterations with
\* itr * batch_size >= eval_num_samples.
C8_AnyBatchSize == <>LoopLeft /\ [](LoopLeft => LoopPost)

\* C8 amended: the same for every batch_size >= 1 with which the loop body
\* completes (a multiple of 32 when class_cond and train_classes == -2); the
\* loop is then left normally, at "sampling complete".
C8_PositiveBatchSize ==
    BodyCompletes =>
        /\ <>(s_pc = "sampled")
        /\ [](LoopLeft => s_pc \in {"sampled", "done", "AssertionError_count"} /\ LoopPost)

\* Three samples asked for in batches of two: left after two iterations.
C8_Witness ==
    /\ s_pc = "sampled"
    /\ s_args.batch_size = 2 /\ s_args.eval_num_samples = 3
    /\ itr = 2 /\ eval_num_samples = 4

RECURSIVE TotalImages(_, _)
TotalImages(fs, todo) ==
    IF todo = {} THEN 0
    ELSE LET r == CHOOSE x \in todo : TRUE
         IN fs[r] + TotalImages(fs, todo \ {r})

\* C9 as stated: once calculate_inception_stats has reached its assertion,
\* count == num_samples holds and the sample*.npz files of out_dir hold at
\* least eval_num_samples images, for save_format 'png' and 'npz' alike.
C9_CountReached ==
    s_pc \in {"done", "AssertionError_count"} =>
        /\ count = s_args.eval_num_samples
        /\ TotalImages(files, DOMAIN files) >= s_args.eval_num_samples

(***************************************************************************)
(*        cm/networks.py: the preconditioning wrappers                     *)
(***************************************************************************)

\* ---- exact rationals <<numerator, denominator>>, denominator > 0 ----
Abs(a) == IF a < 0 THEN -a ELSE a

RECURSIVE GCD(_, _)
GCD(a, b) == IF b = 0 THEN a ELSE GCD(b, a % b)

QNorm(n, d) ==
    LET g == GCD(Abs(n), Abs(d))
        sg == IF d < 0 THEN -1 ELSE 1
    IN <<(sg * n) \div g, (sg * d) \div g>>

Q(n) == <<n, 1>>
QAdd(a, b) == QNorm(a[1] * b[2] + b[1] * a[2], a[2] * b[2])
QMul(a, b) == QNorm(a[1] * b[1], a[2] * b[2])
QDiv(a, b) == QNorm(a[1] * b[2], a[2] * b[1])
QNeg(a) == <<-a[1], a[2]>>
QSquare(a) == QMul(a, a)

IsSquare(n) == \E r \in 0 .. n : r * r = n
ISqrt(n) == CHOOSE r \in 0 .. n : r * r = n
QHasSqrt(a) == a[1] >= 0 /\ IsSquare(a[1]) /\ IsSquare(a[2])
QSqrt(a) == <<ISqrt(a[1]), ISqrt(a[2])>>

\* sigma_data = 0.5, the default of EDMPrecond.
SigmaDataNum == 1
SigmaDataDen == 2
sigma_data == <<SigmaDataNum, SigmaDataDen>>

\* ---- the callee side of a Python call ----
\* SongUNet.__init__ / DhariwalUNet.__init__: parameter names in order; the
\* first three have no default.
InitParams(model_type) ==
    IF model_type = "SongUNet"
    THEN <<"img_resolution", "in_channels", "out_channels", "label_dim", "augment_dim",
           "model_channels", "channel_mult", "channel_mult_emb", "num_blocks",
           "attn_resolutions", "dropout", "label_dropout", "embedding_type",
           "channel_mult_noise", "encoder_type", "decoder_type", "resample_filter",
           "training_mode", "linear_probing", "condition_mode">>
    ELSE <<"img_resolution", "in_channels", "out_channels", "label_dim", "augment_dim",
           "model_channels", "channel_mult", "channel_mult_emb", "num_blocks",
           "attn_resolutions", "dropout", "label_dropout", "training_mode",
           "linear_probing">>

InitRequired == 3

\* SongUNet.forward / DhariwalUNet.forward: the first four have no default.
ForwardParams(model_type) ==
    IF model_type = "SongUNet"
    THEN <<"x", "noise_labels", "noise_labels_s", "class_labels", "x_T">>
    ELSE <<"x", "noise_labels", "noise_labels_s", "class_labels", "augment_labels">>

ForwardRequired == 4

\* Python's binding of a call with npos positional arguments, the keywords kw
\* written in the call and the keywords extra of a **dict, to a function with
\* the parameters params (no *args, no **kwargs), the first nreq without
\* default. FALSE is a TypeError.
Binds(params, nreq, npos, kw, extra) ==
    /\ npos <= Len(params)
    /\ kw \cap extra = {}
    /\ \A k \in kw \cup extra : \E i \in (npos + 1) .. Len(params) : params[i] = k
    /\ \A i \in 1 .. Min(nreq, Len(params)) : i <= npos \/ params[i] \in kw \cup extra

\* ---- the caller side: what each wrapper passes ----
Wrappers == {"VPPrecond", "VEPrecond", "iDDPMPrecond", "EDMPrecond", "EDMPrecond_CTM"}
EDMFamily == Wrappers \ {"EDMPrecond_CTM"}
ModelTypes == {"SongUNet", "DhariwalUNet"}
Archs == {"ddpmpp", "ncsnpp", "adm"}

\* The keywords of globals()[model_type](...) in each __init__.
CtorKeywords(cfg) ==
    LET base == {"img_resolution", "in_channels", "out_channels", "label_dim"}
    IN IF cfg.wrapper # "EDMPrecond_CTM" THEN base
       ELSE IF cfg.arch \in {"ddpmpp", "ncsnpp"}
       THEN base \cup {"training_mode", "resample_filter", "channel_mult_noise",
                       "encoder_type", "embedding_type", "linear_probing",
                       "condition_mode"}
       ELSE base \cup {"training_mode", "linear_probing", "condition_mode"}

\* out_channels passed to the backbone: img_channels*2 for iDDPM.
BackboneOutChannels(cfg) ==
    IF cfg.wrapper = "iDDPMPrecond" THEN cfg.img_channels * 2 ELSE cfg.img_channels

\* self.model(...) in each forward: positional arguments, written keywords
\* and the keywords of **model_kwargs.
FwdPositional(w) == IF w = "EDMPrecond_CTM" THEN 0 ELSE 2
FwdKeywords(w) ==
    IF w = "EDMPrecond_CTM"
    THEN {"x", "noise_labels", "noise_labels_s", "class_labels", "x_T"}
    ELSE {"class_labels"}
\* EDMPrecond_CTM.forward names x_T itself and passes no **model_kwargs on.
FwdExtra(w, kwargs) == IF w = "EDMPrecond_CTM" THEN {} ELSE kwargs
CTMModelKwargs(kwargs) == kwargs \ {"x_T"}

\* The dtype selection of VPPrecond, VEPrecond, iDDPMPrecond and EDMPrecond.
SelectDtypeBf16First(use_fp16, use_bf16, force_fp32, device) ==
    IF use_bf16 /\ ~force_fp32 /\ device = "cuda" THEN "bfloat16"
    ELSE IF use_fp16 /\ ~force_fp32 /\ device = "cuda" THEN "float16"
    ELSE "float32"

SelectDtype(use_fp16, use_bf16, force_fp32, device) ==
    IF use_fp16 /\ ~force_fp32 /\ device = "cuda" THEN "float16"
    ELSE IF use_bf16 /\ ~force_fp32 /\ device = "cuda" THEN "bfloat16"
    ELSE "float32"

\* The dtype selection of EDMPrecond_CTM: neither force_fp32 nor the device.
SelectDtypeCTM(use_fp16, use_bf16) ==
    IF use_fp16 THEN "float16" ELSE IF use_bf16 THEN "bfloat16" ELSE "float32"

\* c_skip, c_out, c_in of each forward.
CSkip(w, sigma) ==
    IF w = "EDMPrecond"
    THEN QDiv(QSquare(sigma_data), QAdd(QSquare(sigma), QSquare(sigma_data)))
    ELSE Q(1)

COut(w, sigma) ==
    CASE w \in {"VPPrecond", "iDDPMPrecond"} -> QNeg(sigma)
      [] w = "VEPrecond" -> sigma
      [] w = "EDMPrecond" ->
            QDiv(QMul(sigma, sigma_data), QSqrt(QAdd(QSquare(sigma), QSquare(sigma_data))))

\* The quantity under the square root of c_in (and of EDM's c_out).
CInRadicand(w, sigma) ==
    CASE w \in {"VPPrecond", "iDDPMPrecond"} -> QAdd(QSquare(sigma), Q(1))
      [] w = "VEPrecond" -> Q(1)
      [] w = "EDMPrecond" -> QAdd(QSquare(sigma_data), QSquare(sigma))

CIn(w, sigma) ==
    IF w = "VEPrecond" THEN Q(1) ELSE QDiv(Q(1), QSqrt(CInRadicand(w, sigma)))

Scale(c, xs) == [i \in DOMAIN xs |-> QMul(c, xs[i])]

\* D_x = c_skip * x + c_out * F_x; iDDPM reads F_x[:, :img_channels].
Combine(w, sigma, xs, fx) ==
    [i \in DOMAIN xs |-> QAdd(QMul(CSkip(w, sigma), xs[i]), QMul(COut(w, sigma), Q(fx[i])))]

\* ---- inputs ----
Sigmas == {<<3, 4>>, <<4, 3>>, <<3, 8>>, <<6, 5>>}
XValues == {Q(1), Q(-2)}
FValues == {1, 3}
ImgChannels == 1
CtorKwargSets == {{}, {"num_blocks"}}
FwdKwargSets == {{}, {"noise_labels_s"}, {"noise_labels_s", "x_T"}, {"augment_labels"}, {"y"}}

\* The noise levels whose coefficients this wrapper computes exactly here.
SigmasOf(w) ==
    IF w = "EDMPrecond_CTM" THEN {<<3, 4>>}
    ELSE {sg \in Sigmas : QHasSqrt(CInRadicand(w, sg))}

PrecondConfigs ==
    {c \in [wrapper : Wrappers, model_type : ModelTypes, use_fp16 : BOOLEAN,
            use_bf16 : BOOLEAN, label_dim : {0, 1}, img_channels : {ImgChannels},
            teacher : BOOLEAN, arch : Archs, model_kwargs : CtorKwargSets] :
        c.wrapper # "EDMPrecond_CTM" => (~c.teacher /\ c.arch = "adm")}

PrecondCalls(w) ==
    [force_fp32 : BOOLEAN, device : {"cpu", "cuda"}, model_kwargs : FwdKwargSets,
     sigma : SigmasOf(w), x : [1 .. ImgChannels -> XValues]]

InitPrecond ==
    /\ p_cfg \in PrecondConfigs
    /\ p_pc = "new"
    /\ p_call = None /\ dtype = None /\ model_in = None /\ calls = 0
    /\ F_x = None /\ F_dtype = None /\ D_x = None
    /\ IdleSample /\ IdleUNet /\ IdleTrain /\ IdleConv

\* __init__: EDMPrecond_CTM with teacher unpickles its model; otherwise the
\* backbone is constructed with the wrapper's keywords and **model_kwargs.
PrecondConstruct ==
    /\ p_pc = "new"
    /\ p_pc' = IF p_cfg.teacher
                  \/ Binds(InitParams(p_cfg.model_type), InitRequired, 0,
                           CtorKeywords(p_cfg), p_cfg.model_kwargs)
               THEN "ready" ELSE "TypeError_init"
    /\ UNCHANGED <<p_cfg, p_call, dtype, model_in, calls, F_x, F_dtype, D_x>>
    /\ UNCHANGED <<sampleVars, unetVars, trainVars, convVars>>

\* forward of VPPrecond, VEPrecond, iDDPMPrecond, EDMPrecond. The backbone,
\* when the call binds, returns some tensor of the dtype of its input.
EDMFamilyForward ==
    /\ p_pc = "ready"
    /\ p_cfg.wrapper \in EDMFamily
    /\ \E c \in PrecondCalls(p_cfg.wrapper) :
        LET w == p_cfg.wrapper
            dt == SelectDtype(p_cfg.use_fp16, p_cfg.use_bf16, c.force_fp32, c.device)
            arg == [x |-> Scale(CIn(w, c.sigma), c.x), dtype |-> dt]
        IN /\ p_call' = c
           /\ dtype' = dt
           /\ model_in' = arg
           /\ IF Binds(ForwardParams(p_cfg.model_type), ForwardRequired,
                       FwdPositional(w), FwdKeywords(w), FwdExtra(w, c.model_kwargs))
              THEN \E fx \in [1 .. BackboneOutChannels(p_cfg) -> FValues] :
                    /\ calls' = 1
                    /\ F_x' = fx
                    /\ F_dtype' = arg.dtype
                    /\ IF F_dtype' = dt
                       THEN p_pc' = "returned" /\ D_x' = Combine(w, c.sigma, c.x, fx)
                       ELSE p_pc' = "AssertionError" /\ D_x' = None
              ELSE /\ p_pc' = "TypeError_forward"
                   /\ calls' = 0
                   /\ F_x' = None /\ F_dtype' = None /\ D_x' = None
    /\ UNCHANGED p_cfg
    /\ UNCHANGED <<sampleVars, unetVars, trainVars, convVars>>

\* EDMPrecond_CTM.forward.
CTMForward ==
    /\ p_pc = "ready"
    /\ p_cfg.wrapper = "EDMPrecond_CTM"
    /\ \E c \in PrecondCalls(p_cfg.wrapper) :
        LET w == p_cfg.wrapper
            dt == SelectDtypeCTM(p_cfg.use_fp16, p_cfg.use_bf16)
            arg == [x |-> c.x, dtype |-> dt]
        IN /\ p_call' = c
           /\ IF p_cfg.label_dim # 0 /\ CTMModelKwargs(c.model_kwargs) # {}
                 /\ "y" \notin c.model_kwargs
              THEN /\ p_pc' = "KeyError"
                   /\ dtype' = None /\ model_in' = None /\ calls' = 0
                   /\ F_x' = None /\ F_dtype' = None /\ D_x' = None
              ELSE IF p_cfg.teacher
              THEN /\ p_pc' = "NotImplementedError"
                   /\ dtype' = dt /\ model_in' = None /\ calls' = 0
                   /\ F_x' = None /\ F_dtype' = None /\ D_x' = None
              ELSE /\ dtype' = dt
                   /\ model_in' = arg
                   /\ IF Binds(ForwardParams(p_cfg.model_type), ForwardRequired,
                               FwdPositional(w), FwdKeywords(w), FwdExtra(w, c.model_kwargs))
                      THEN \E fx \in [1 .. BackboneOutChannels(p_cfg) -> FValues] :
                            /\ calls' = 1
                            /\ F_x' = fx
                            /\ F_dtype' = arg.dtype
                            /\ D_x' = [i \in DOMAIN fx |-> Q(fx[i])]
                            /\ p_pc' = "returned"
                      ELSE /\ p_pc' = "TypeError_forward"
                           /\ calls' = 0
                           /\ F_x' = None /\ F_dtype' = None /\ D_x' = None
    /\ UNCHANGED p_cfg
    /\ UNCHANGED <<sampleVars, unetVars, trainVars, convVars>>

\* The caller goes on to its next call.
PrecondNextCall ==
    /\ p_pc \in {"returned", "TypeError_forward", "KeyError", "NotImplementedError"}
    /\ p_pc' = "ready"
    /\ p_call' = None /\ dtype' = None /\ model_in' = None /\ calls' = 0
    /\ F_x' = None /\ F_dtype' = None /\ D_x' = None
    /\ UNCHANGED p_cfg
    /\ UNCHANGED <<sampleVars, unetVars, trainVars, convVars>>

NextPrecond == PrecondConstruct \/ EDMFamilyForward \/ CTMForward \/ PrecondNextCall

SpecPrecond == InitPrecond /\ [][NextPrecond]_vars

(***************************************************************************)
(*             Claims about the preconditioning wrappers                   *)
(***************************************************************************)

ForwardOver == p_pc \in {"returned", "TypeError_forward", "AssertionError",
                         "KeyError", "NotImplementedError"}

\* C1 as stated: whichever wrapper is built over whichever backbone, with no
\* extra model_kwargs from the caller, the backbone's constructor accepts
\* what the wrapper passes, and the backbone's forward accepts what the
\* wrapper's forward passes and gets every argument it requires: neither
\* call ends in a TypeError.
C1_EveryWrapperDelegates ==
    (~p_cfg.teacher /\ p_cfg.model_kwargs = {}) =>
        /\ p_pc # "TypeError_init"
        /\ (ForwardOver /\ p_call.model_kwargs = {}) => p_pc # "TypeError_forward"

\* The coefficients as the claim gives them.
ClaimedDx(w, sigma, xs, fx) ==
    LET root == QSqrt(QAdd(QSquare(sigma), QSquare(sigma_data)))
        c_skip == IF w = "EDMPrecond"
                  THEN QDiv(QSquare(sigma_data), QAdd(QSquare(sigma), QSquare(sigma_data)))
                  ELSE Q(1)
        c_out == IF w = "VEPrecond" THEN sigma
                 ELSE IF w = "EDMPrecond" THEN QDiv(QMul(sigma, sigma_data), root)
                 ELSE QNeg(sigma)
    IN [i \in 1 .. ImgChannels |-> QAdd(QMul(c_skip, xs[i]), QMul(c_out, Q(fx[i])))]

\* C2 as stated: forward(x, sigma) of VPPrecond, VEPrecond, iDDPMPrecond and
\* EDMPrecond, called with no further keyword, invokes the backbone exactly
\* once, on c_in * x, and returns D_x = c_skip * x + c_out * F_x with the
\* claim's (c_skip, c_out), iDDPM reading the first img_channels channels.
C2_ForwardReturnsDx ==
    (p_cfg.wrapper \in EDMFamily /\ ForwardOver /\ p_call.model_kwargs = {}) =>
        /\ p_pc = "returned"
        /\ calls = 1
        /\ model_in.x = Scale(CIn(p_cfg.wrapper, p_call.sigma), p_call.x)
        /\ D_x = ClaimedDx(p_cfg.wrapper, p_call.sigma, p_call.x, F_x)

\* C3: in the forward of VPPrecond, VEPrecond, iDDPMPrecond and EDMPrecond,
\* dtype is float16 exactly when use_fp16, not force_fp32 and on cuda;
\* otherwise bfloat16 exactly when use_bf16, not force_fp32 and on cuda;
\* otherwise float32. The backbone's input has that dtype, and forward
\* returns only when the backbone's output has it too.
C3_DtypeSelection ==
    (p_cfg.wrapper \in EDMFamily /\ ForwardOver) =>
        LET low == ~p_call.force_fp32 /\ p_call.device = "cuda"
            half == p_cfg.use_fp16 /\ low
            brain == ~half /\ p_cfg.use_bf16 /\ low
        IN /\ (dtype = "float16") <=> half
           /\ (dtype = "bfloat16") <=> brain
           /\ (dtype = "float32") <=> (~half /\ ~brain)
           /\ p_call.force_fp32 => dtype = "float32"
           /\ model_in.dtype = dtype
           /\ p_pc = "returned" => F_dtype = dtype

\* Both flags set on cuda: float16 wins, and the call returned.
C3_Witness ==
    /\ p_pc = "returned"
    /\ p_cfg.wrapper = "EDMPrecond"
    /\ p_cfg.use_fp16 /\ p_cfg.use_bf16
    /\ ~p_call.force_fp32 /\ p_call.device = "cuda"
    /\ dtype = "float16" /\ model_in.dtype = "float16" /\ F_dtype = "float16"

(***************************************************************************)
(*        cm/networks.py: Conv2d, UNetBlock, SongUNet, DhariwalUNet        *)
(***************************************************************************)

\* Bounds of the backbone model.
MaxNumBlocks == 2
LogResolution == 3
ModelChannels == 4

\* The channel count that the reshape of emb_mult hard-codes; the images
\* modelled have as many channels.
RGB == 3
\* UNetBlock's channels_per_head default.
ChannelsPerHead == 64
\* num_heads that SongUNet passes to its blocks.
SongNumHeads == 1
\* channel_mult_emb default.
ChannelMultEmb == 4
\* Kernel sizes the constructors use.
Kernel3 == 3
Kernel1 == 1
Kernel0 == 0

RECURSIVE Pow2(_)
Pow2(k) == IF k = 0 THEN 1 ELSE 2 * Pow2(k - 1)

\* n >> k
Shr(n, k) == n \div Pow2(k)

\* ---- torch.nn.ModuleDict: insertion-ordered, assignment to a key in use
\* ---- replaces the module in place ----
DictSet(d, name, mod) ==
    IF \E i \in DOMAIN d : d[i].name = name
    THEN [i \in DOMAIN d |-> IF d[i].name = name THEN [name |-> name, mod |-> mod] ELSE d[i]]
    ELSE Append(d, [name |-> name, mod |-> mod])

\* f'{res}x{res}_{tag}': the tag split at '_', a block's index apart.
Name(res, tag, idx) == [res |-> res, tag |-> tag, idx |-> idx]

\* pat in name, for the patterns the code tests ('aux', 'aux_down', ...).
Contains(name, pat) ==
    \E i \in 1 .. (Len(name.tag) - Len(pat) + 1) :
        SubSeq(name.tag, i, i + Len(pat) - 1) = pat

\* ---- Conv2d.__init__ ----
\* weight is None when kernel == 0, bias is None when kernel == 0 or not bias;
\* wdtype / bdtype hold the dtype of weight.data / bias.data, None for None.
Conv2dNew(cin, cout, kernel, bias, up, down, resample_filter, fused_resample) ==
    [cls |-> "Conv2d", in_channels |-> cin, out_channels |-> cout, kernel |-> kernel,
     up |-> up, down |-> down, fused_resample |-> fused_resample,
     wdtype |-> IF kernel # 0 THEN "float32" ELSE None,
     bdtype |-> IF kernel # 0 /\ bias THEN "float32" ELSE None,
     resample_filter |-> IF up \/ down THEN resample_filter ELSE <<>>]

PlainConv(cin, cout, kernel) == Conv2dNew(cin, cout, kernel, TRUE, FALSE, FALSE, <<1, 1>>, FALSE)

GroupNormNew(num_channels) == [cls |-> "GroupNorm", num_channels |-> num_channels]

LinearNew(in_features, out_features) ==
    [cls |-> "Linear", in_features |-> in_features, out_features |-> out_features]

\* ---- UNetBlock.__init__: the block with its Conv2d children in
\* ---- registration order; num_heads is <<>> for None, <<n>> for n ----
UNetBlockNew(cin, cout, emb_channels, up, down, attention, num_heads, resample_filter, resample_proj, training_mode, linear_probing) ==
    LET heads == IF ~attention THEN 0
                 ELSE IF num_heads # <<>> THEN num_heads[1] ELSE cout \div ChannelsPerHead
        hasSkip == cout # cin \/ up \/ down
        kernel == IF resample_proj \/ cout # cin THEN Kernel1 ELSE Kernel0
        skipConv == Conv2dNew(cin, cout, kernel, TRUE, up, down, resample_filter, FALSE)
        main == <<[name |-> "conv0",
                   mod |-> Conv2dNew(cin, cout, Kernel3, TRUE, up, down, resample_filter, FALSE)],
                  [name |-> "conv1", mod |-> PlainConv(cout, cout, Kernel3)]>>
                \o (IF hasSkip THEN <<[name |-> "skip", mod |-> skipConv]>> ELSE <<>>)
                \o (IF heads # 0
                    THEN <<[name |-> "qkv", mod |-> PlainConv(cout, cout * 3, Kernel1)],
                           [name |-> "proj", mod |-> PlainConv(cout, cout, Kernel1)]>>
                    ELSE <<>>)
        train == <<[name |-> "conv0_train",
                    mod |-> Conv2dNew(cin, cout, Kernel3, TRUE, up, down, resample_filter, FALSE)],
                   [name |-> "conv1_train", mod |-> PlainConv(cout, cout, Kernel3)]>>
                 \o (IF hasSkip THEN <<[name |-> "skip_train", mod |-> skipConv]>> ELSE <<>>)
                 \o (IF heads # 0
                     THEN <<[name |-> "qkv_train", mod |-> PlainConv(cout, cout * 3, Kernel1)],
                            [name |-> "proj_train", mod |-> PlainConv(cout, cout, Kernel1)]>>
                     ELSE <<>>)
    IN [cls |-> "UNetBlock", in_channels |-> cin, out_channels |-> cout,
        emb_channels |-> emb_channels, num_heads |-> heads,
        training_mode |-> training_mode, linear_probing |-> linear_probing,
        has_skip |-> hasSkip,
        convs |-> IF linear_probing THEN main \o train ELSE main]

\* The blocks as SongUNet builds them (block_kwargs: num_heads=1,
\* resample_proj=True) and as DhariwalUNet does (channels_per_head=64, the
\* defaults resample_filter=[1,1], resample_proj=False, linear_probing=False).
SongBlock(cfg, cin, cout, up, down, attention) ==
    UNetBlockNew(cin, cout, cfg.model_channels * ChannelMultEmb, up, down, attention,
                 <<SongNumHeads>>, cfg.resample_filter, TRUE, cfg.training_mode,
                 cfg.linear_probing)

DhariwalBlock(cfg, cin, cout, up, down, attention) ==
    UNetBlockNew(cin, cout, cfg.model_channels * ChannelMultEmb, up, down, attention,
                 <<>>, <<1, 1>>, FALSE, cfg.training_mode, FALSE)

NumLevels(cfg) == Len(cfg.channel_mult)
Res(cfg, level) == Shr(cfg.img_resolution, level)

\* ---- SongUNet.__init__, encoder ----
\* st = [enc, cout, caux]; the loop `for idx in range(num_blocks)` from idx.
RECURSIVE SongEncBlocks(_, _, _, _)
SongEncBlocks(st, cfg, level, idx) ==
    IF idx >= cfg.num_blocks THEN st
    ELSE LET res == Res(cfg, level)
             cin == st.cout
             cout == cfg.model_channels * cfg.channel_mult[level + 1]
             attn == res \in cfg.attn_resolutions
         IN SongEncBlocks(
                [st EXCEPT !.enc = DictSet(@, Name(res, <<"block">>, idx),
                                           SongBlock(cfg, cin, cout, FALSE, FALSE, attn)),
                           !.cout = cout],
                cfg, level, idx + 1)

SongEncHead(st, cfg, level) ==
    LET res == Res(cfg, level) IN
    IF level = 0
    THEN [st EXCEPT !.enc = DictSet(@, Name(res, <<"conv">>, -1),
                                    PlainConv(st.cout, cfg.model_channels, Kernel3)),
                    !.cout = cfg.model_channels]
    ELSE LET e1 == DictSet(st.enc, Name(res, <<"down">>, -1),
                           SongBlock(cfg, st.cout, st.cout, FALSE, TRUE, FALSE))
         IN CASE cfg.encoder_type = "skip" ->
                    [st EXCEPT !.enc =
                        DictSet(DictSet(e1, Name(res, <<"aux", "down">>, -1),
                                        Conv2dNew(st.caux, st.caux, Kernel0, TRUE, FALSE, TRUE,
                                                  cfg.resample_filter, FALSE)),
                                Name(res, <<"aux", "skip">>, -1),
                                PlainConv(st.caux, st.cout, Kernel1))]
              [] cfg.encoder_type = "residual" ->
                    [st EXCEPT !.enc =
                        DictSet(e1, Name(res, <<"aux", "residual">>, -1),
                                Conv2dNew(st.caux, st.cout, Kernel3, TRUE, FALSE, TRUE,
                                          cfg.resample_filter, TRUE)),
                               !.caux = st.cout]
              [] OTHER -> [st EXCEPT !.enc = e1]

RECURSIVE SongEncLevels(_, _, _)
SongEncLevels(st, cfg, level) ==
    IF level >= NumLevels(cfg) THEN st
    ELSE SongEncLevels(SongEncBlocks(SongEncHead(st, cfg, level), cfg, level, 0),
                       cfg, level + 1)

\* The first convolution sized for x alone, whatever the condition_mode.
SongInChannelsPlain(cfg) == cfg.in_channels

\* in_channels = 2 * in_channels if condition_mode == 'concat'
SongInChannels(cfg) ==
    IF cfg.condition_mode = "concat" THEN 2 * cfg.in_channels ELSE cfg.in_channels

SongEncoder(cfg) ==
    SongEncLevels([enc |-> <<>>, cout |-> SongInChannels(cfg), caux |-> SongInChannels(cfg)],
                  cfg, 0)

\* The skips list without the filter on the names: one entry per encoder module.
SongInitSkipsAll(e) == [i \in DOMAIN e |-> e[i].mod.out_channels]

\* skips = [block.out_channels for name, block in self.enc.items() if 'aux' not in name]
SongInitSkips(e) ==
    LET keep == SelectSeq(e, LAMBDA it : ~Contains(it.name, <<"aux">>))
    IN [i \in DOMAIN keep |-> keep[i].mod.out_channels]

\* ---- the decoders ----
\* st = [dec, cout, skips, popped, err]; skips.pop() raises on an empty list.
Pop(st) ==
    IF st.skips = <<>> THEN [st EXCEPT !.err = "IndexError_skips"]
    ELSE [st EXCEPT !.skips = SubSeq(@, 1, Len(@) - 1), !.popped = @ + 1]

Top(st) == st.skips[Len(st.skips)]

RECURSIVE SongDecBlocks(_, _, _, _)
SongDecBlocks(st, cfg, level, idx) ==
    IF idx >= cfg.num_blocks + 1 \/ st.err # None THEN st
    ELSE IF st.skips = <<>> THEN Pop(st)
    ELSE LET res == Res(cfg, level)
             cin == st.cout + Top(st)
             cout == cfg.model_channels * cfg.channel_mult[level + 1]
             attn == idx = cfg.num_blocks /\ res \in cfg.attn_resolutions
             st1 == Pop(st)
         IN SongDecBlocks(
                [st1 EXCEPT !.dec = DictSet(@, Name(res, <<"block">>, idx),
                                            SongBlock(cfg, cin, cout, FALSE, FALSE, attn)),
                            !.cout = cout],
                cfg, level, idx + 1)

SongDecHead(st, cfg, level) ==
    LET res == Res(cfg, level) IN
    IF level = NumLevels(cfg) - 1
    THEN [st EXCEPT !.dec =
            DictSet(DictSet(@, Name(res, <<"in0">>, -1),
                            SongBlock(cfg, st.cout, st.cout, FALSE, FALSE, TRUE)),
                    Name(res, <<"in1">>, -1),
                    SongBlock(cfg, st.cout, st.cout, FALSE, FALSE, FALSE))]
    ELSE [st EXCEPT !.dec = DictSet(@, Name(res, <<"up">>, -1),
                                    SongBlock(cfg, st.cout, st.cout, TRUE, FALSE, FALSE))]

SongDecAux(st, cfg, level) ==
    LET res == Res(cfg, level)
        d0 == st.dec
        d1 == IF cfg.decoder_type = "skip" /\ level < NumLevels(cfg) - 1
              THEN DictSet(d0, Name(res, <<"aux", "up">>, -1),
                           Conv2dNew(cfg.out_channels, cfg.out_channels, Kernel0, TRUE, TRUE,
                                     FALSE, cfg.resample_filter, FALSE))
              ELSE d0
        d2 == DictSet(DictSet(d1, Name(res, <<"aux", "norm">>, -1), GroupNormNew(st.cout)),
                      Name(res, <<"aux", "conv">>, -1),
                      PlainConv(st.cout, cfg.out_channels, Kernel3))
        d3 == IF cfg.linear_probing
              THEN DictSet(DictSet(DictSet(d2,
                        Name(res, <<"aux", "norm", "train">>, -1), GroupNormNew(st.cout)),
                        Name(res, <<"aux", "lin", "train">>, -1),
                        LinearNew(cfg.model_channels * ChannelMultEmb,
                                  cfg.out_channels * cfg.img_resolution * cfg.img_resolution)),
                        Name(res, <<"aux", "conv", "train">>, -1),
                        PlainConv(st.cout, cfg.out_channels, Kernel3))
              ELSE d2
    IN IF st.err # None THEN st
       ELSE IF cfg.decoder_type = "skip" \/ level = 0 THEN [st EXCEPT !.dec = d3]
       ELSE st

\* for level, mult in reversed(list(enumerate(channel_mult)))
RECURSIVE SongDecLevels(_, _, _)
SongDecLevels(st, cfg, level) ==
    IF level < 0 \/ st.err # None THEN st
    ELSE SongDecLevels(
            SongDecAux(SongDecBlocks(SongDecHead(st, cfg, level), cfg, level, 0), cfg, level),
            cfg, level - 1)

SongDecoder(cfg, e) ==
    SongDecLevels([dec |-> <<>>, cout |-> e.cout, skips |-> SongInitSkips(e.enc),
                   popped |-> 0, err |-> None],
                  cfg, NumLevels(cfg) - 1)

\* ---- DhariwalUNet.__init__ ----
RECURSIVE DhariwalEncBlocks(_, _, _, _)
DhariwalEncBlocks(st, cfg, level, idx) ==
    IF idx >= cfg.num_blocks THEN st
    ELSE LET res == Res(cfg, level)
             cin == st.cout
             cout == cfg.model_channels * cfg.channel_mult[level + 1]
         IN DhariwalEncBlocks(
                [st EXCEPT !.enc = DictSet(@, Name(res, <<"block">>, idx),
                                           DhariwalBlock(cfg, cin, cout, FALSE, FALSE,
                                                         res \in cfg.attn_resolutions)),
                           !.cout = cout],
                cfg, level, idx + 1)

DhariwalEncHead(st, cfg, level) ==
    LET res == Res(cfg, level)
        cout == cfg.model_channels * cfg.channel_mult[level + 1]
    IN IF level = 0
       THEN [st EXCEPT !.enc = DictSet(@, Name(res, <<"conv">>, -1),
                                       PlainConv(st.cout, cout, Kernel3)),
                       !.cout = cout]
       ELSE [st EXCEPT !.enc = DictSet(@, Name(res, <<"down">>, -1),
                                       DhariwalBlock(cfg, st.cout, st.cout, FALSE, TRUE, FALSE))]

RECURSIVE DhariwalEncLevels(_, _, _)
DhariwalEncLevels(st, cfg, level) ==
    IF level >= NumLevels(cfg) THEN st
    ELSE DhariwalEncLevels(
            DhariwalEncBlocks(DhariwalEncHead(st, cfg, level), cfg, level, 0), cfg, level + 1)

DhariwalEncoder(cfg) ==
    DhariwalEncLevels([enc |-> <<>>, cout |-> cfg.in_channels, caux |-> cfg.in_channels], cfg, 0)

\* skips = [block.out_channels for block in self.enc.values()]
DhariwalInitSkips(e) == [i \in DOMAIN e |-> e[i].mod.out_channels]

RECURSIVE DhariwalDecBlocks(_, _, _, _)
DhariwalDecBlocks(st, cfg, level, idx) ==
    IF idx >= cfg.num_blocks + 1 \/ st.err # None THEN st
    ELSE IF st.skips = <<>> THEN Pop(st)
    ELSE LET res == Res(cfg, level)
             cin == st.cout + Top(st)
             cout == cfg.model_channels * cfg.channel_mult[level + 1]
             st1 == Pop(st)
         IN DhariwalDecBlocks(
                [st1 EXCEPT !.dec = DictSet(@, Name(res, <<"block">>, idx),
                                            DhariwalBlock(cfg, cin, cout, FALSE, FALSE,
                                                          res \in cfg.attn_resolutions)),
                            !.cout = cout],
                cfg, level, idx + 1)

DhariwalDecHead(st, cfg, level) ==
    LET res == Res(cfg, level) IN
    IF level = NumLevels(cfg) - 1
    THEN [st EXCEPT !.dec =
            DictSet(DictSet(@, Name(res, <<"in0">>, -1),
                            DhariwalBlock(cfg, st.cout, st.cout, FALSE, FALSE, TRUE)),
                    Name(res, <<"in1">>, -1),
                    DhariwalBlock(cfg, st.cout, st.cout, FALSE, FALSE, FALSE))]
    ELSE [st EXCEPT !.dec = DictSet(@, Name(res, <<"up">>, -1),
                                    DhariwalBlock(cfg, st.cout, st.cout, TRUE, FALSE, FALSE))]

RECURSIVE DhariwalDecLevels(_, _, _)
DhariwalDecLevels(st, cfg, level) ==
    IF level < 0 \/ st.err # None THEN st
    ELSE DhariwalDecLevels(
            DhariwalDecBlocks(DhariwalDecHead(st, cfg, level), cfg, level, 0), cfg, level - 1)

DhariwalDecoder(cfg, e) ==
    DhariwalDecLevels([dec |-> <<>>, cout |-> e.cout, skips |-> DhariwalInitSkips(e.enc),
                       popped |-> 0, err |-> None],
                      cfg, NumLevels(cfg) - 1)

\* ---- tensors: a shape <<channels, height>> (images are square, the batch
\* ---- dimension is left out); NoneT is Python's None, Bad the outcome of an
\* ---- operation that torch rejects with a RuntimeError ----
NoneT == <<>>
Bad == <<0, 0>>
Shape(c, h) == IF c <= 0 \/ h <= 0 THEN Bad ELSE <<c, h>>

\* Output height of torch.nn.functional.conv2d / conv_transpose2d.
ConvSize(h, k, s, p) == IF h <= 0 \/ h + 2 * p < k THEN 0 ELSE ((h + 2 * p - k) \div s) + 1
\* The output height of a transposed convolution that takes no padding.
ConvTSizeUnpadded(h, k, s, p) == IF h <= 0 THEN 0 ELSE (h - 1) * s + k

ConvTSize(h, k, s, p) == IF h <= 0 THEN 0 ELSE (h - 1) * s - 2 * p + k

\* ---- Conv2d.forward ----
Conv2dForward(m, t) ==
    IF t = Bad \/ t[1] # m.in_channels THEN Bad
    ELSE LET k == m.kernel
             hasW == m.wdtype # None
             flen == Len(m.resample_filter)
             w_pad == IF hasW THEN k \div 2 ELSE 0
             f_pad == IF flen # 0 THEN (flen - 1) \div 2 ELSE 0
             h == t[2]
         IN IF m.fused_resample /\ m.up /\ hasW
            THEN Shape(m.out_channels,
                       ConvSize(ConvTSize(h, flen, 2, Max(f_pad - w_pad, 0)),
                                k, 1, Max(w_pad - f_pad, 0)))
            ELSE IF m.fused_resample /\ m.down /\ hasW
            THEN Shape(m.out_channels,
                       ConvSize(ConvSize(h, k, 1, w_pad + f_pad), flen, 2, 0))
            ELSE LET h1 == IF m.up THEN ConvTSize(h, flen, 2, f_pad) ELSE h
                     h2 == IF m.down THEN ConvSize(h1, flen, 2, f_pad) ELSE h1
                 IN IF hasW THEN Shape(m.out_channels, ConvSize(h2, k, 1, w_pad))
                    ELSE Shape(t[1], h2)

\* ---- GroupNorm: num_groups = min(num_groups, num_channels // min_channels_per_group) ----
NumGroups == 32
MinChannelsPerGroup == 4
GroupNormForward(num_channels, t) ==
    LET groups == Min(NumGroups, num_channels \div MinChannelsPerGroup) IN
    IF t = Bad \/ t[1] # num_channels \/ groups = 0 THEN Bad
    ELSE IF num_channels % groups # 0 THEN Bad ELSE t

\* a + b, a * b with broadcasting over the spatial dimensions.
Broadcast(a, b) ==
    IF a = Bad \/ b = Bad \/ a[1] # b[1] THEN Bad
    ELSE IF a[2] = b[2] THEN a
    ELSE IF a[2] = 1 THEN b
    ELSE IF b[2] = 1 THEN a ELSE Bad

\* torch.cat([a, b], dim=1)
Cat(a, b) == IF a = Bad \/ b = Bad \/ a[2] # b[2] THEN Bad ELSE <<a[1] + b[1], a[2]>>

\* The Conv2d child of a block by its attribute name.
Child(b, name) == (CHOOSE c \in {b.convs[i] : i \in DOMAIN b.convs} : c.name = name).mod

\* ---- UNetBlock.forward: the shape of the result. x.add_(...) is in place,
\* ---- so the skip path has to have the shape of the main path. The
\* ---- attention and the linear-probing branch keep the shape.
UNetBlockForward(b, t) ==
    LET h0 == Conv2dForward(Child(b, "conv0"), GroupNormForward(b.in_channels, t))
        h1 == Conv2dForward(Child(b, "conv1"), GroupNormForward(b.out_channels, h0))
        sk == IF b.has_skip THEN Conv2dForward(Child(b, "skip"), t) ELSE t
    IN IF h1 = sk THEN h1 ELSE Bad

\* What UNetBlock.forward raises before it returns, "" if nothing:
\* affine_s(emb_s) with emb_s=None, and the assertion of the linear-probing branch.
UNetBlockRaises(b, s_given) ==
    IF b.training_mode = "ctm" /\ ~s_given THEN "AttributeError_emb_s"
    ELSE IF b.linear_probing /\ b.training_mode # "ctm" THEN "AssertionError_linear_probing"
    ELSE ""

\* block(x, emb, emb_s=..., emb_t=emb_t if self.linear_probing else None) in
\* SongUNet.forward: [err, out]. emb_t is a local assigned only under
\* `if noise_labels_s != None: ... if self.linear_probing:`.
SongCallBlock(b, t, cfg, call, bound) ==
    IF cfg.linear_probing /\ "emb_t" \notin bound
    THEN [err |-> "UnboundLocalError_emb_t", out |-> Bad]
    ELSE LET out == UNetBlockForward(b, t)
             e == UNetBlockRaises(b, call.s)
         IN IF Conv2dForward(Child(b, "conv0"), GroupNormForward(b.in_channels, t)) = Bad
            THEN [err |-> "RuntimeError_shape", out |-> Bad]
            ELSE IF e # "" THEN [err |-> e, out |-> Bad]
            ELSE IF out = Bad THEN [err |-> "RuntimeError_shape", out |-> Bad]
            ELSE [err |-> "", out |-> out]

\* The same call in DhariwalUNet.forward, which passes no emb_t.
DhariwalCallBlock(b, t, call) ==
    LET out == UNetBlockForward(b, t)
        e == UNetBlockRaises(b, call.s)
    IN IF Conv2dForward(Child(b, "conv0"), GroupNormForward(b.in_channels, t)) = Bad
       THEN [err |-> "RuntimeError_shape", out |-> Bad]
       ELSE IF e # "" THEN [err |-> e, out |-> Bad]
       ELSE IF out = Bad THEN [err |-> "RuntimeError_shape", out |-> Bad]
       ELSE [err |-> "", out |-> out]

\* ---- configurations ----
EncoderTypes == {"standard", "skip", "residual"}
DecoderTypes == {"standard", "skip"}
TrainingModes == {"", "ctm"}
ConditionModes == {None, "concat"}
ResampleFilters == {<<1, 1>>, <<1, 3, 3, 1>>}
ChannelMults == {<<1>>, <<1, 2>>, <<2, 2>>, <<1, 2, 2>>}
ImgResolution == Pow2(LogResolution)
\* A resolution that two or more halvings do not divide.
UnevenResolution == ImgResolution - 2
ImgResolutions == {ImgResolution, UnevenResolution}

\* The arguments the constructors' assertions accept. DhariwalUNet has no
\* encoder_type, decoder_type, resample_filter or condition_mode, and does
\* not hand linear_probing to its blocks: those fields are held fixed for it.
UNetConfigs ==
    {c \in [backbone : ModelTypes, img_resolution : ImgResolutions,
            in_channels : {RGB}, out_channels : {RGB},
            model_channels : {ModelChannels}, channel_mult : ChannelMults,
            num_blocks : 0 .. MaxNumBlocks, attn_resolutions : {{Shr(ImgResolution, 1)}},
            encoder_type : EncoderTypes, decoder_type : DecoderTypes,
            resample_filter : ResampleFilters, training_mode : TrainingModes,
            linear_probing : BOOLEAN, condition_mode : ConditionModes] :
        c.backbone = "DhariwalUNet" =>
            /\ c.encoder_type = "standard" /\ c.decoder_type = "standard"
            /\ c.resample_filter = <<1, 1>> /\ c.condition_mode = None
            /\ ~c.linear_probing}

\* ---- the calls made on a constructed network ----
NoCall == [op |-> "none", s |-> FALSE, x_T |-> FALSE, dtype |-> None]
ForwardCalls(cfg) ==
    {[op |-> "forward", s |-> s, x_T |-> xT, dtype |-> None] :
        s \in BOOLEAN, xT \in IF cfg.backbone = "SongUNet" THEN BOOLEAN ELSE {FALSE}}
NoLocals == [aux |-> NoneT, tmp |-> NoneT, emb_mult |-> NoneT, bound |-> {}, pushed |-> 0]


InitUNet ==
    /\ u_cfg \in UNetConfigs
    /\ u_pc = "new"
    /\ enc = <<>> /\ dec = <<>> /\ out_conv = None /\ init_skips = None
    /\ f_in = NoCall /\ f_i = 0 /\ u_x = NoneT /\ skips = <<>> /\ f_loc = NoLocals /\ pops = 0
    /\ IdleSample /\ IdlePrecond /\ IdleTrain /\ IdleConv

\* SongUNet.__init__ / DhariwalUNet.__init__.
UNetConstruct ==
    /\ u_pc = "new"
    /\ LET e == IF u_cfg.backbone = "SongUNet" THEN SongEncoder(u_cfg)
                ELSE DhariwalEncoder(u_cfg)
           d == IF u_cfg.backbone = "SongUNet" THEN SongDecoder(u_cfg, e)
                ELSE DhariwalDecoder(u_cfg, e)
           pushed == IF u_cfg.backbone = "SongUNet" THEN SongInitSkips(e.enc)
                     ELSE DhariwalInitSkips(e.enc)
       IN /\ enc' = e.enc
          /\ dec' = d.dec
          /\ init_skips' = [pushed |-> pushed, popped |-> d.popped, left |-> d.skips]
          /\ out_conv' = IF u_cfg.backbone = "DhariwalUNet" /\ d.err = None
                         THEN PlainConv(d.cout, u_cfg.out_channels, Kernel3) ELSE None
          /\ u_pc' = IF d.err = None THEN "ready" ELSE d.err
    /\ UNCHANGED <<u_cfg, f_in, f_i, u_x, skips, f_loc, pops>>
    /\ UNCHANGED <<sampleVars, precondVars, trainVars, convVars>>

\* forward up to the encoder loop: the concat of x_T, the mapping network,
\* skips = [], aux = x. map_layer0_s exists only if training_mode is 'ctm'.
\* It is called on the network as constructed or as converted.
ForwardBegin ==
    /\ u_pc \in {"ready", "converted"}
    /\ \E call \in ForwardCalls(u_cfg) :
        LET song == u_cfg.backbone = "SongUNet"
            x0 == <<u_cfg.in_channels, u_cfg.img_resolution>>
            xT == IF call.x_T THEN <<u_cfg.in_channels, u_cfg.img_resolution>> ELSE NoneT
            t == IF song /\ u_cfg.condition_mode = "concat" THEN Cat(x0, xT) ELSE x0
            bound == IF ~call.s THEN {}
                     ELSE IF song /\ u_cfg.linear_probing THEN {"emb_s", "emb_t"}
                     ELSE {"emb_s"}
        IN /\ f_in' = call
           /\ IF song /\ u_cfg.condition_mode = "concat" /\ ~call.x_T
              THEN /\ u_pc' = "AssertionError_x_T"
                   /\ UNCHANGED <<f_i, u_x, skips, f_loc>>
              ELSE IF call.s /\ u_cfg.training_mode # "ctm"
              THEN /\ u_pc' = "AttributeError_map_layer0_s"
                   /\ UNCHANGED <<f_i, u_x, skips, f_loc>>
              ELSE /\ u_pc' = "enc"
                   /\ f_i' = 1
                   /\ u_x' = t
                   /\ skips' = <<>>
                   /\ f_loc' = [NoLocals EXCEPT !.aux = t, !.bound = bound]
    /\ UNCHANGED <<u_cfg, enc, dec, out_conv, init_skips, pops>>
    /\ UNCHANGED <<sampleVars, precondVars, trainVars, convVars>>

\* skips[-1] = t
SetTop(st, t) == [st EXCEPT ![Len(st)] = t]

\* After the last encoder module forward goes on to the decoder loop, with
\* aux = None and tmp = None.
AfterEncoder(loc) ==
    /\ u_pc' = IF f_i = Len(enc) THEN "dec" ELSE "enc"
    /\ f_i' = IF f_i = Len(enc) THEN 1 ELSE f_i + 1
    /\ f_loc' = IF f_i = Len(enc) THEN [loc EXCEPT !.aux = NoneT, !.tmp = NoneT] ELSE loc

Raise(err) ==
    /\ u_pc' = err
    /\ UNCHANGED <<f_i, u_x, skips, f_loc, pops>>

\* One pass of `for name, block in self.enc.items()` of SongUNet.forward.
SongEncStep ==
    /\ u_pc = "enc" /\ u_cfg.backbone = "SongUNet"
    /\ LET name == enc[f_i].name
           block == enc[f_i].mod
       IN IF Contains(name, <<"aux", "down">>)
          THEN LET a == Conv2dForward(block, f_loc.aux) IN
               IF a = Bad THEN Raise("RuntimeError_shape")
               ELSE /\ AfterEncoder([f_loc EXCEPT !.aux = a])
                    /\ UNCHANGED <<u_x, skips, pops>>
          ELSE IF Contains(name, <<"aux", "skip">>) \/ Contains(name, <<"aux", "residual">>)
          THEN LET r == Broadcast(u_x, Conv2dForward(block, f_loc.aux)) IN
               IF r = Bad THEN Raise("RuntimeError_shape")
               ELSE IF skips = <<>> THEN Raise("IndexError_skips")
               ELSE /\ u_x' = r
                    /\ skips' = SetTop(skips, r)
                    /\ AfterEncoder(IF Contains(name, <<"aux", "residual">>)
                                    THEN [f_loc EXCEPT !.aux = r] ELSE f_loc)
                    /\ UNCHANGED pops
          ELSE LET res == IF block.cls = "UNetBlock"
                          THEN SongCallBlock(block, u_x, u_cfg, f_in, f_loc.bound)
                          ELSE LET o == Conv2dForward(block, u_x) IN
                               [err |-> IF o = Bad THEN "RuntimeError_shape" ELSE "", out |-> o]
               IN IF res.err # "" THEN Raise(res.err)
                  ELSE /\ u_x' = res.out
                       /\ skips' = Append(skips, res.out)
                       /\ AfterEncoder([f_loc EXCEPT !.pushed = @ + 1])
                       /\ UNCHANGED pops
    /\ UNCHANGED <<u_cfg, enc, dec, out_conv, init_skips, f_in>>
    /\ UNCHANGED <<sampleVars, precondVars, trainVars, convVars>>

\* One pass of `for block in self.enc.values()` of DhariwalUNet.forward.
DhariwalEncStep ==
    /\ u_pc = "enc" /\ u_cfg.backbone = "DhariwalUNet"
    /\ LET block == enc[f_i].mod
           res == IF block.cls = "UNetBlock" THEN DhariwalCallBlock(block, u_x, f_in)
                  ELSE LET o == Conv2dForward(block, u_x) IN
                       [err |-> IF o = Bad THEN "RuntimeError_shape" ELSE "", out |-> o]
       IN IF res.err # "" THEN Raise(res.err)
          ELSE /\ u_x' = res.out
               /\ skips' = Append(skips, res.out)
               /\ u_pc' = IF f_i = Len(enc) THEN "dec" ELSE "enc"
               /\ f_i' = IF f_i = Len(enc) THEN 1 ELSE f_i + 1
               /\ f_loc' = [f_loc EXCEPT !.pushed = @ + 1]
               /\ UNCHANGED pops
    /\ UNCHANGED <<u_cfg, enc, dec, out_conv, init_skips, f_in>>
    /\ UNCHANGED <<sampleVars, precondVars, trainVars, convVars>>

\* A decoder step that pops for every block, whatever its in_channels.
PopSkipAlways(block) ==
    IF skips = <<>>
    THEN [err |-> "IndexError_skips", x |-> Bad, skips |-> skips, pops |-> pops]
    ELSE LET c == Cat(u_x, skips[Len(skips)]) IN
         [err |-> IF c = Bad THEN "RuntimeError_shape" ELSE "", x |-> c,
          skips |-> SubSeq(skips, 1, Len(skips) - 1), pops |-> pops + 1]

\* `if x.shape[1] != block.in_channels: x = torch.cat([x, skips.pop()], dim=1)`:
\* [err, x, skips, pops]. The pop is made before torch.cat can raise.
PopSkip(block) ==
    IF u_x[1] = block.in_channels
    THEN [err |-> "", x |-> u_x, skips |-> skips, pops |-> pops]
    ELSE IF skips = <<>>
    THEN [err |-> "IndexError_skips", x |-> Bad, skips |-> skips, pops |-> pops]
    ELSE LET c == Cat(u_x, skips[Len(skips)]) IN
         [err |-> IF c = Bad THEN "RuntimeError_shape" ELSE "", x |-> c,
          skips |-> SubSeq(skips, 1, Len(skips) - 1), pops |-> pops + 1]

AfterDecoder ==
    /\ u_pc' = IF f_i = Len(dec) THEN "return" ELSE "dec"
    /\ f_i' = f_i + 1

\* One pass of `for name, block in self.dec.items()` of SongUNet.forward.
SongDecStep ==
    /\ u_pc = "dec" /\ u_cfg.backbone = "SongUNet"
    /\ LET name == dec[f_i].name
           block == dec[f_i].mod
       IN IF Contains(name, <<"aux", "up">>)
          THEN IF f_loc.aux = NoneT THEN Raise("AttributeError_aux")
               ELSE LET a == Conv2dForward(block, f_loc.aux) IN
                    IF a = Bad THEN Raise("RuntimeError_shape")
                    ELSE /\ f_loc' = [f_loc EXCEPT !.aux = a]
                         /\ AfterDecoder
                         /\ UNCHANGED <<u_x, skips, pops>>
          ELSE IF Contains(name, <<"aux", "norm">>)
          THEN LET n == GroupNormForward(block.num_channels, u_x) IN
               IF n = Bad THEN Raise("RuntimeError_shape")
               ELSE /\ f_loc' = [f_loc EXCEPT !.tmp = n]
                    /\ AfterDecoder
                    /\ UNCHANGED <<u_x, skips, pops>>
          ELSE IF Contains(name, <<"aux", "lin">>)
          THEN IF "emb_t" \notin f_loc.bound THEN Raise("UnboundLocalError_emb_t")
               ELSE IF "emb_s" \notin f_loc.bound THEN Raise("UnboundLocalError_emb_s")
               ELSE IF block.out_features % (RGB * u_cfg.img_resolution * u_cfg.img_resolution) # 0
               THEN Raise("RuntimeError_shape")
               ELSE /\ f_loc' = [f_loc EXCEPT !.emb_mult = <<RGB, u_cfg.img_resolution>>,
                                              !.bound = @ \cup {"emb_mult"}]
                    /\ AfterDecoder
                    /\ UNCHANGED <<u_x, skips, pops>>
          ELSE IF Contains(name, <<"aux", "conv">>)
          THEN LET t == IF f_loc.tmp = NoneT THEN Bad ELSE Conv2dForward(block, f_loc.tmp) IN
               IF t = Bad THEN Raise("RuntimeError_shape")
               ELSE IF f_loc.aux = NoneT
               THEN /\ f_loc' = [f_loc EXCEPT !.tmp = t, !.aux = t]
                    /\ AfterDecoder
                    /\ UNCHANGED <<u_x, skips, pops>>
               ELSE IF "emb_mult" \notin f_loc.bound THEN Raise("UnboundLocalError_emb_mult")
               ELSE LET a == Broadcast(Broadcast(t, f_loc.emb_mult), f_loc.aux) IN
                    IF a = Bad THEN Raise("RuntimeError_shape")
                    ELSE /\ f_loc' = [f_loc EXCEPT !.tmp = t, !.aux = a]
                         /\ AfterDecoder
                         /\ UNCHANGED <<u_x, skips, pops>>
          ELSE LET p == PopSkip(block)
                   res == SongCallBlock(block, p.x, u_cfg, f_in, f_loc.bound)
               IN IF p.err # ""
                  THEN /\ u_pc' = p.err
                       /\ skips' = p.skips /\ pops' = p.pops
                       /\ UNCHANGED <<f_i, u_x, f_loc>>
                  ELSE IF res.err # ""
                  THEN /\ u_pc' = res.err
                       /\ u_x' = p.x /\ skips' = p.skips /\ pops' = p.pops
                       /\ UNCHANGED <<f_i, f_loc>>
                  ELSE /\ u_x' = res.out /\ skips' = p.skips /\ pops' = p.pops
                       /\ AfterDecoder
                       /\ UNCHANGED f_loc
    /\ UNCHANGED <<u_cfg, enc, dec, out_conv, init_skips, f_in>>
    /\ UNCHANGED <<sampleVars, precondVars, trainVars, convVars>>

\* One pass of `for block in self.dec.values()` of DhariwalUNet.forward.
DhariwalDecStep ==
    /\ u_pc = "dec" /\ u_cfg.backbone = "DhariwalUNet"
    /\ LET block == dec[f_i].mod
           p == PopSkip(block)
           res == DhariwalCallBlock(block, p.x, f_in)
       IN IF p.err # ""
          THEN /\ u_pc' = p.err
               /\ skips' = p.skips /\ pops' = p.pops
               /\ UNCHANGED <<f_i, u_x, f_loc>>
          ELSE IF res.err # ""
          THEN /\ u_pc' = res.err
               /\ u_x' = p.x /\ skips' = p.skips /\ pops' = p.pops
               /\ UNCHANGED <<f_i, f_loc>>
          ELSE /\ u_x' = res.out /\ skips' = p.skips /\ pops' = p.pops
               /\ AfterDecoder
               /\ UNCHANGED f_loc
    /\ UNCHANGED <<u_cfg, enc, dec, out_conv, init_skips, f_in>>
    /\ UNCHANGED <<sampleVars, precondVars, trainVars, convVars>>

\* `return aux` of SongUNet.forward; `x = self.out_conv(silu(self.out_norm(x)))`
\* and `return x` of DhariwalUNet.forward. u_x holds the value returned.
ForwardReturn ==
    /\ u_pc = "return"
    /\ LET out == IF u_cfg.backbone = "SongUNet" THEN f_loc.aux
                  ELSE Conv2dForward(out_conv, GroupNormForward(out_conv.in_channels, u_x))
       IN IF out = Bad THEN Raise("RuntimeError_shape")
          ELSE /\ u_pc' = "returned"
               /\ u_x' = out
               /\ UNCHANGED <<f_i, skips, f_loc, pops>>
    /\ UNCHANGED <<u_cfg, enc, dec, out_conv, init_skips, f_in>>
    /\ UNCHANGED <<sampleVars, precondVars, trainVars, convVars>>

\* ---- convert_to_fp16 / convert_to_bf16 / convert_to_fp32 ----
Dtypes == {"float16", "bfloat16", "float32"}

\* The module-level names networks.py binds: its imports (those of
\* convert_module_to_f16, convert_module_to_bf16 and convert_module_to_f32 are
\* commented out) and its own functions and classes.
ModuleGlobals ==
    {"np", "torch", "persistence", "silu", "append_dims", "dist_util", "weight_init",
     "Linear", "Conv2d", "GroupNorm", "AttentionOp", "UNetBlock", "PositionalEmbedding",
     "FourierEmbedding", "SongUNet", "DhariwalUNet", "VPPrecond", "VEPrecond",
     "iDDPMPrecond", "EDMPrecond", "EDMPrecond_CTM"}

\* The function each DhariwalUNet.convert_to_* hands to Module.apply.
ConvertFunction(dt) ==
    CASE dt = "float16" -> "convert_module_to_f16"
      [] dt = "bfloat16" -> "convert_module_to_bf16"
      [] dt = "float32" -> "convert_module_to_f32"

\* `l.weight.data = l.weight.data.half()` and, if l.bias is not None, the
\* same for the bias: [err, mod]. weight is not tested for None.
HelperConv2d(m, dt) ==
    IF m.wdtype = None THEN [err |-> TRUE, mod |-> m]
    ELSE [err |-> FALSE,
          mod |-> [m EXCEPT !.wdtype = dt, !.bdtype = IF @ = None THEN None ELSE dt]]

\* The Conv2d children of a block from the i-th on, up to the first failure.
RECURSIVE HelperChildren(_, _, _)
HelperChildren(convs, i, dt) ==
    IF i > Len(convs) THEN [err |-> FALSE, convs |-> convs]
    ELSE LET r == HelperConv2d(convs[i].mod, dt) IN
         IF r.err THEN [err |-> TRUE, convs |-> convs]
         ELSE HelperChildren([convs EXCEPT ![i].mod = r.mod], i + 1, dt)

\* Module.apply(_helper_convert_module_to_*) on one entry of enc or dec: the
\* children first, then the module itself. GroupNorm and Linear match no branch.
HelperModule(mod, dt) ==
    IF mod.cls = "Conv2d" THEN HelperConv2d(mod, dt)
    ELSE IF mod.cls = "UNetBlock"
    THEN LET r == HelperChildren(mod.convs, 1, dt) IN
         [err |-> r.err, mod |-> [mod EXCEPT !.convs = r.convs]]
    ELSE [err |-> FALSE, mod |-> mod]

\* self.enc.apply(...) / self.dec.apply(...): the entries from the i-th on.
\* What was converted before a failure stays converted.
RECURSIVE ApplyHelper(_, _, _)
ApplyHelper(d, i, dt) ==
    IF i > Len(d) THEN [err |-> FALSE, d |-> d]
    ELSE LET r == HelperModule(d[i].mod, dt) IN
         IF r.err THEN [err |-> TRUE, d |-> [d EXCEPT ![i].mod = r.mod]]
         ELSE ApplyHelper([d EXCEPT ![i].mod = r.mod], i + 1, dt)

ConvertCall(dt) == [op |-> "convert", s |-> FALSE, x_T |-> FALSE, dtype |-> dt]

\* SongUNet.convert_to_fp16 / convert_to_bf16 / convert_to_fp32
SongConvert ==
    /\ u_pc = "ready" /\ u_cfg.backbone = "SongUNet"
    /\ \E dt \in Dtypes :
        LET e == ApplyHelper(enc, 1, dt)
            d == IF e.err THEN [err |-> TRUE, d |-> dec] ELSE ApplyHelper(dec, 1, dt)
        IN /\ f_in' = ConvertCall(dt)
           /\ enc' = e.d
           /\ dec' = d.d
           /\ u_pc' = IF d.err THEN "AttributeError_weight" ELSE "converted"
    /\ UNCHANGED <<u_cfg, out_conv, init_skips, f_i, u_x, skips, f_loc, pops>>
    /\ UNCHANGED <<sampleVars, precondVars, trainVars, convVars>>

\* DhariwalUNet.convert_to_fp16 / convert_to_bf16 / convert_to_fp32: the
\* first statement looks up convert_module_to_* in the module's globals.
DhariwalConvert ==
    /\ u_pc = "ready" /\ u_cfg.backbone = "DhariwalUNet"
    /\ \E dt \in Dtypes :
        /\ f_in' = ConvertCall(dt)
        /\ IF ConvertFunction(dt) \in ModuleGlobals
           THEN LET e == ApplyHelper(enc, 1, dt)
                    d == IF e.err THEN [err |-> TRUE, d |-> dec] ELSE ApplyHelper(dec, 1, dt)
                    o == IF d.err THEN [err |-> TRUE, mod |-> out_conv]
                         ELSE HelperConv2d(out_conv, dt)
                IN /\ enc' = e.d /\ dec' = d.d /\ out_conv' = o.mod
                   /\ u_pc' = IF o.err THEN "AttributeError_weight" ELSE "converted"
           ELSE /\ u_pc' = "NameError_convert_module"
                /\ UNCHANGED <<enc, dec, out_conv>>
    /\ UNCHANGED <<u_cfg, init_skips, f_i, u_x, skips, f_loc, pops>>
    /\ UNCHANGED <<sampleVars, precondVars, trainVars, convVars>>

NextUNet ==
    \/ UNetConstruct
    \/ ForwardBegin
    \/ SongEncStep
    \/ DhariwalEncStep
    \/ SongDecStep
    \/ DhariwalDecStep
    \/ ForwardReturn
    \/ SongConvert
    \/ DhariwalConvert

SpecUNet == InitUNet /\ [][NextUNet]_vars

\* ---- a Conv2d on its own ----
MaxHeight == 8
Kernels == {Kernel0, Kernel1, Kernel3}

\* The modules `assert not (up and down)` lets through, and their inputs.
Conv2dModules ==
    {Conv2dNew(RGB, ModelChannels, k, TRUE, up, down, f, fused) :
        k \in Kernels, up \in BOOLEAN, down \in {FALSE}, f \in ResampleFilters,
        fused \in BOOLEAN}
    \cup
    {Conv2dNew(RGB, ModelChannels, k, TRUE, FALSE, TRUE, f, fused) :
        k \in Kernels, f \in ResampleFilters, fused \in BOOLEAN}

InitConv2d ==
    /\ c_mod \in Conv2dModules
    /\ c_arg \in {<<RGB, h>> : h \in 1 .. MaxHeight}
    /\ c_pc = "new"
    /\ c_ret = <<>>
    /\ IdleSample /\ IdlePrecond /\ IdleUNet /\ IdleTrain

\* Conv2d.forward(x)
Conv2dCall ==
    /\ c_pc = "new"
    /\ c_ret' = Conv2dForward(c_mod, c_arg)
    /\ c_pc' = IF Conv2dForward(c_mod, c_arg) = Bad THEN "RuntimeError_shape" ELSE "returned"
    /\ UNCHANGED <<c_mod, c_arg>>
    /\ UNCHANGED <<sampleVars, precondVars, unetVars, trainVars>>

\* networks.py's modules: a backbone, or a Conv2d on its own.
InitNetworks == InitUNet \/ InitConv2d
NextNetworks == NextUNet \/ Conv2dCall
SpecNetworks == InitNetworks /\ [][NextNetworks]_vars

(***************************************************************************)
(*                 Claims about the backbones (SpecUNet)                   *)
(***************************************************************************)

\* The Conv2d modules of enc or dec: the entries that are Conv2d and the
\* Conv2d children of the UNetBlock entries.
Conv2dsOf(d) ==
    UNION {IF d[i].mod.cls = "Conv2d" THEN {d[i].mod}
           ELSE IF d[i].mod.cls = "UNetBlock"
           THEN {d[i].mod.convs[j].mod : j \in DOMAIN d[i].mod.convs}
           ELSE {} : i \in DOMAIN d}

InDtype(m, dt) == m.wdtype \in {dt, None} /\ m.bdtype \in {dt, None}

ConvertCalled(backbone) ==
    /\ u_pc \notin {"idle", "new", "ready"}
    /\ u_cfg.backbone = backbone
    /\ f_in.op = "convert"

\* C4: SongUNet.convert_to_fp16, convert_to_bf16 and convert_to_fp32 complete
\* without error for every configuration the constructor accepts, and leave
\* the weight and the bias of every Conv2d of enc and dec in the target dtype
\* (a Conv2d built with kernel=0 has neither).
C4_SongConvertCompletes ==
    ConvertCalled("SongUNet") =>
        /\ u_pc = "converted"
        /\ \A m \in Conv2dsOf(enc) \cup Conv2dsOf(dec) : InDtype(m, f_in.dtype)

\* C5: DhariwalUNet.convert_to_fp16, convert_to_bf16 and convert_to_fp32
\* return normally, with enc, dec and out_conv in float16, bfloat16 and
\* float32 respectively.
C5_DhariwalConvertCompletes ==
    ConvertCalled("DhariwalUNet") =>
        /\ u_pc = "converted"
        /\ \A m \in Conv2dsOf(enc) \cup Conv2dsOf(dec) \cup {out_conv} : InDtype(m, f_in.dtype)

\* A forward call that fits the configuration: noise_labels_s is given
\* exactly when training_mode is 'ctm', x_T is given under condition_mode
\* 'concat', and linear probing is used in 'ctm' mode only.
ConsistentForward ==
    /\ u_pc \notin {"idle", "new", "ready", "converted"}
    /\ f_in.op = "forward"
    /\ f_in.s <=> u_cfg.training_mode = "ctm"
    /\ u_cfg.condition_mode = "concat" => f_in.x_T
    /\ u_cfg.linear_probing => u_cfg.training_mode = "ctm"

\* C6: for every SongUNet configuration the constructor accepts (every
\* encoder_type and decoder_type, linear_probing on or off), forward raises
\* nothing in any encoder or decoder step (in particular emb_mult is bound
\* when an 'aux_conv' step reads it) and returns a tensor, not None.
C6_SongForwardReturns ==
    (u_cfg.backbone = "SongUNet" /\ ConsistentForward) =>
        /\ u_pc \in {"enc", "dec", "return", "returned"}
        /\ u_pc = "returned" => u_x # NoneT

\* The number of entries the skip stack is to receive.
SkipCount == NumLevels(u_cfg) * (u_cfg.num_blocks + 1)

\* C10: in SongUNet and DhariwalUNet the skip stack is balanced. The
\* constructor's skips list gets len(channel_mult)*(num_blocks+1) entries and
\* the decoder loop of the constructor pops them all; forward's encoder
\* pushes as many and its decoder pops as many; no pop meets an empty stack,
\* and the stack is empty when forward returns.
C10_SkipStackBalanced ==
    u_pc \notin {"idle", "new"} =>
        /\ u_pc # "IndexError_skips"
        /\ Len(init_skips.pushed) = SkipCount
        /\ init_skips.popped = SkipCount
        /\ init_skips.left = <<>>
        /\ Len(skips) + pops = f_loc.pushed
        /\ u_pc \in {"dec", "return", "returned"} => f_loc.pushed = SkipCount
        /\ u_pc \in {"return", "returned"} => pops = SkipCount /\ skips = <<>>

\* forward has returned from a three-level SongUNet with auxiliary encoder
\* modules, every push popped.
C10_Witness ==
    /\ u_pc = "returned"
    /\ u_cfg.backbone = "SongUNet"
    /\ u_cfg.encoder_type = "skip"
    /\ NumLevels(u_cfg) = 3
    /\ u_cfg.num_blocks = MaxNumBlocks
    /\ pops = SkipCount /\ pops > 0

\* What C11 says of one step of the decoder loop, dec[f_i] being the module
\* the step runs.
C11_Step ==
    (u_pc = "dec" /\ f_i \in DOMAIN dec) =>
        LET isBlock == Contains(dec[f_i].name, <<"block">>)
            n == Len(skips)
        IN /\ pops' = IF isBlock THEN pops + 1 ELSE pops
           /\ isBlock =>
                /\ n > 0
                /\ skips[n][1] = init_skips.pushed[n]
                /\ u_x[1] + skips[n][1] = dec[f_i].mod.in_channels

\* C11: in the forward of SongUNet and DhariwalUNet a decoder step pops a
\* skip exactly when its module is a '_block{idx}' block (never for '_in0',
\* '_in1', '_up' or an aux module); the skip popped has the channel count the
\* constructor recorded at that position of its skips list, and x with the
\* skip concatenated has as many channels as the block's in_channels.
C11_PopsOnBlocks == [][C11_Step]_vars

\* A '_block{idx}' step has popped a skip and run its block, two levels deep.
C11_Witness ==
    /\ u_pc = "dec" /\ f_i > 1
    /\ Contains(dec[f_i - 1].name, <<"block">>)
    /\ NumLevels(u_cfg) >= 2
    /\ pops >= 1
    /\ u_x[1] = dec[f_i - 1].mod.out_channels

\* The spatial size C12 gives for a Conv2d called on size h.
ResampledSize(m, h) == IF m.up THEN 2 * h ELSE IF m.down THEN h \div 2 ELSE h

\* img_resolution is divisible by 2^(len(channel_mult)-1).
ResolutionDivides(cfg) == cfg.img_resolution % Pow2(NumLevels(cfg) - 1) = 0

\* C12: Conv2d.forward maps an input of even spatial size H to 2H when up,
\* H/2 when down and H otherwise, fused or not, for kernel 0, 1 or 3 and
\* resample_filter [1,1] or [1,3,3,1]; and in a backbone whose img_resolution
\* is divisible by 2^(len(channel_mult)-1) the skip on top of the stack has
\* the spatial size of x whenever a '_block{idx}' step is about to pop it.
C12_Conv2dSizes ==
    /\ (c_pc \notin {"idle", "new"} /\ c_arg[2] % 2 = 0) =>
            /\ c_pc = "returned"
            /\ c_ret[2] = ResampledSize(c_mod, c_arg[2])
    /\ (/\ u_pc = "dec" /\ f_i \in DOMAIN dec /\ ResolutionDivides(u_cfg)
        /\ Contains(dec[f_i].name, <<"block">>) /\ skips # <<>>) =>
            skips[Len(skips)][2] = u_x[2]

\* The fused upsampling path with a 3x3 kernel and the filter [1,3,3,1] has
\* returned, the size doubled.
C12_Witness ==
    /\ c_pc = "returned"
    /\ c_mod.fused_resample /\ c_mod.up /\ c_mod.kernel = Kernel3
    /\ c_mod.resample_filter = <<1, 3, 3, 1>>
    /\ c_arg[2] = 4 /\ c_ret[2] = 8

\* Without the divisibility the decoder meets a skip of another size.
C12_UnevenMismatch ==
    /\ u_pc = "dec" /\ f_i \in DOMAIN dec /\ ~ResolutionDivides(u_cfg)
    /\ Contains(dec[f_i].name, <<"block">>) /\ skips # <<>>
    /\ skips[Len(skips)][2] # u_x[2]


\* The channels of the tensor the encoder of a SongUNet starts from.
EncoderInputChannels(cfg) ==
    IF cfg.condition_mode = "concat" THEN cfg.in_channels + cfg.in_channels
    ELSE cfg.in_channels

\* C13: in a SongUNet with condition_mode 'concat' the first convolution
\* takes 2*in_channels channels, forward fails its assertion exactly when
\* x_T is None, and the encoder starts from x with x_T concatenated on the
\* channel axis; with any other condition_mode the first convolution takes
\* in_channels channels and the encoder starts from x, x_T given or not.
\* Either way the first convolution accepts the encoder's input.
C13_ConcatInput ==
    (u_cfg.backbone = "SongUNet" /\ enc # <<>>) =>
        LET concat == u_cfg.condition_mode = "concat"
            begun == f_in.op = "forward"
        IN /\ enc[1].mod.in_channels = EncoderInputChannels(u_cfg)
           /\ (u_pc = "AssertionError_x_T") <=> (begun /\ concat /\ ~f_in.x_T)
           /\ (u_pc = "enc" /\ f_i = 1) =>
                /\ u_x = <<EncoderInputChannels(u_cfg), u_cfg.img_resolution>>
                /\ f_loc.aux = u_x
                /\ skips = <<>>
           /\ (u_pc = "enc" /\ f_i = 2) => u_x = <<ModelChannels, u_cfg.img_resolution>>
           /\ ~(u_pc = "RuntimeError_shape" /\ f_i = 1 /\ skips = <<>>)

\* A 'concat' SongUNet called with x_T has run its first convolution on the
\* concatenated input.
C13_Witness ==
    /\ u_cfg.backbone = "SongUNet" /\ u_cfg.condition_mode = "concat"
    /\ f_in.op = "forward" /\ f_in.x_T
    /\ u_pc = "enc" /\ f_i = 2
    /\ enc[1].mod.in_channels = 2 * u_cfg.in_channels
    /\ u_x[1] = ModelChannels

\* A SongUNet with another condition_mode called with x_T starts its encoder
\* from x alone.
C13_IgnoredWitness ==
    /\ u_cfg.backbone = "SongUNet" /\ u_cfg.condition_mode # "concat"
    /\ f_in.op = "forward" /\ f_in.x_T
    /\ u_pc = "enc" /\ f_i = 1
    /\ u_x[1] = u_cfg.in_channels
(***************************************************************************)
(*          cm_train.py: main, up to the construction of CMTrainLoop       *)
(***************************************************************************)

\* Parameter values are integers 0 .. MaxValue.
MaxValue == 3
Values == 0 .. MaxValue

\* tensor.half() / .bfloat16() / .float(), and the cast copy_ makes to the
\* destination's dtype: float16 keeps fewer bits of a value than float32,
\* bfloat16 fewer still.
Cast(v, dt) ==
    CASE dt = "float16" -> v - (v % 2)
      [] dt = "bfloat16" -> v - (v % 4)
      [] OTHER -> v

\* A component of a dotted parameter name; train marks the suffix '_train'.
Comp(base) == [base |-> base, train |-> FALSE]
CompTrain(base) == [base |-> base, train |-> TRUE]

\* named_parameters() of the model create_model_and_diffusion returns, the
\* wrapper's self.model being the backbone: a Linear of the mapping network,
\* then Conv2d weights of the torso (self.model.enc), the *_train copy only
\* under linear probing. torso marks what convert_to_* reaches.
ParamNames(args) ==
    <<[name |-> <<Comp("model"), Comp("map_layer0"), Comp("weight")>>, torso |-> FALSE],
      [name |-> <<Comp("model"), Comp("enc"), Comp("conv"), Comp("weight")>>, torso |-> TRUE],
      [name |-> <<Comp("model"), Comp("enc"), Comp("block0"), Comp("conv0"), Comp("weight")>>,
       torso |-> TRUE]>>
    \o (IF args.linear_probing
        THEN <<[name |-> <<Comp("model"), Comp("enc"), Comp("block0"), CompTrain("conv0"),
                           Comp("weight")>>, torso |-> TRUE]>>
        ELSE <<>>)

\* A freshly created model: float32 parameters with the values of its
\* initialisation.
NewModel(args, seed) ==
    LET names == ParamNames(args) IN
    [i \in DOMAIN names |->
        [name |-> names[i].name, torso |-> names[i].torso,
         value |-> (seed + i) % (MaxValue + 1), dtype |-> "float32"]]

\* The teacher: a wrapper whose self.model is the network of the checkpoint,
\* its values those of the checkpoint. The checkpoint holds a backbone, or
\* a wrapper around one (parameter names one component longer:
\* teacher_model.model.model is the backbone), trained with the *_train
\* modules or without them.
TeacherModel(args) ==
    LET names == ParamNames([args EXCEPT !.linear_probing = args.ckpt_probing])
        prefix == IF args.ckpt_wrapped THEN <<Comp("model")>> ELSE <<>>
    IN [i \in DOMAIN names |->
        [name |-> prefix \o names[i].name, torso |-> names[i].torso,
         value |-> (args.teacher_seed + i) % (MaxValue + 1), dtype |-> "float32"]]

\* `if args.use_fp16: ... elif args.use_bf16: ...`
TrainDtype(args) ==
    IF args.use_fp16 THEN "float16" ELSE IF args.use_bf16 THEN "bfloat16" ELSE "float32"

\* convert_to_fp16 / convert_to_bf16 of the wrapper, which hands over to the
\* backbone: the Conv2d weights of enc and dec are cast.
ConvertParams(m, dt) ==
    [i \in DOMAIN m |->
        IF m[i].torso THEN [m[i] EXCEPT !.value = Cast(@, dt), !.dtype = dt] ELSE m[i]]

\* A filter_ that returns the name as it is.
NoFilter(name) == name

\* filter_(dst_name): '_train' removed from every component.
filter_(name) == [i \in DOMAIN name |-> [name[i] EXCEPT !.train = FALSE]]

\* dst_name in ['.'.join(src_name.split('.')[1:]), src_name]
NameMatches(dst_name, src_name) == dst_name = Tail(src_name) \/ dst_name = src_name

\* Whether the pass of the inner loop over src copies and breaks.
Loads(dst_name, src_name, args) ==
    \/ NameMatches(dst_name, src_name)
    \/ args.linear_probing /\ NameMatches(filter_(dst_name), src_name)

\* The teacher parameter a student parameter is loaded from: the first in
\* named_parameters() order for which the loop breaks, 0 if there is none.
LoadedFrom(dst_name, teacher, args) ==
    LET hits == {j \in DOMAIN teacher : Loads(dst_name, teacher[j].name, args)} IN
    IF hits = {} THEN 0 ELSE CHOOSE j \in hits : \A k \in hits : j <= k

\* dst.data.copy_(src.data): the value, cast to the dtype dst has.
copy_(dst, src) == [dst EXCEPT !.value = Cast(src.value, dst.dtype)]

\* The loops `for dst_name, dst in model.named_parameters(): for src_name, src
\* in teacher_model.named_parameters(): ...`
LoadTeacherWeights(m, teacher, args) ==
    [i \in DOMAIN m |->
        LET j == LoadedFrom(m[i].name, teacher, args) IN
        IF j = 0 THEN m[i] ELSE copy_(m[i], teacher[j])]

\* A target that keeps its own initialisation.
CopyNothing(dst, src) == dst

\* for dst, src in zip(target_model.parameters(), model.parameters()):
\*     dst.data.copy_(src.data)
CopyParams(dst, src) ==
    [i \in DOMAIN dst |-> IF i \in DOMAIN src THEN copy_(dst[i], src[i]) ELSE dst[i]]

\* `len(args.teacher_model_path) > 0 and not args.self_learn`
HasTeacher(args) == args.teacher_model_path /\ ~args.self_learn

\* The arguments main's setup reads. teacher_model_path: whether it is
\* non-empty; aux: whether the backbone has a Conv2d built with kernel=0
\* (encoder_type or decoder_type 'skip'); seed, teacher_seed: the values the
\* student's initialisation and the checkpoint hold; ckpt_wrapped,
\* ckpt_probing: what the checkpoint at teacher_model_path holds, a wrapper
\* around the backbone rather than the backbone, with *_train modules or not.
TrainArgs ==
    [use_fp16 : BOOLEAN, use_bf16 : BOOLEAN, teacher_model_path : BOOLEAN,
     self_learn : BOOLEAN, linear_probing : BOOLEAN, edm_nn_ncsn : BOOLEAN,
     aux : BOOLEAN, seed : Values, teacher_seed : Values,
     ckpt_wrapped : BOOLEAN, ckpt_probing : BOOLEAN]

InitTrain ==
    /\ t_args \in TrainArgs
    /\ t_pc = "start"
    /\ model = <<>> /\ teacher_model = <<>> /\ target_model = <<>>
    /\ IdleSample /\ IdlePrecond /\ IdleUNet /\ IdleConv

\* model, diffusion = create_model_and_diffusion(...); model.to(...); model.train()
CreateModel ==
    /\ t_pc = "start"
    /\ model' = NewModel(t_args, t_args.seed)
    /\ t_pc' = "model_created"
    /\ UNCHANGED <<t_args, teacher_model, target_model>>
    /\ UNCHANGED <<sampleVars, precondVars, unetVars, convVars>>

\* if args.use_fp16: model.convert_to_fp16() elif args.use_bf16:
\* model.convert_to_bf16(). With a kernel=0 Conv2d in the backbone the
\* conversion raises at it, after the modules before it were converted.
ConvertModel ==
    /\ t_pc = "model_created"
    /\ LET dt == TrainDtype(t_args) IN
       IF dt = "float32"
       THEN /\ t_pc' = "model_converted"
            /\ UNCHANGED model
       ELSE /\ model' = ConvertParams(model, dt)
            /\ t_pc' = IF t_args.aux THEN "AttributeError_weight" ELSE "model_converted"
    /\ UNCHANGED <<t_args, teacher_model, target_model>>
    /\ UNCHANGED <<sampleVars, precondVars, unetVars, convVars>>

\* The teacher branch: the teacher is created and loaded from its checkpoint,
\* its weights are copied into the student by name; a wrapper constructed
\* with teacher=True skips convert_to_*. Else teacher_model = None. The
\* assertion under `if args.self_learn` then holds. Under edm_nn_ncsn
\* teacher_model.model.model.map_noise is read, which a checkpoint holding a
\* bare backbone does not have.
LoadTeacher ==
    /\ t_pc = "model_converted"
    /\ IF HasTeacher(t_args)
       THEN /\ teacher_model' = TeacherModel(t_args)
            /\ model' = LoadTeacherWeights(model, TeacherModel(t_args), t_args)
            /\ t_pc' = IF t_args.edm_nn_ncsn /\ ~t_args.ckpt_wrapped
                       THEN "AttributeError_model" ELSE "teacher_done"
       ELSE /\ teacher_model' = <<>>
            /\ UNCHANGED model
            /\ t_pc' = "teacher_done"
    /\ UNCHANGED <<t_args, target_model>>
    /\ UNCHANGED <<sampleVars, precondVars, unetVars, convVars>>

\* target_model, _ = create_model_and_diffusion(args): the same network, with
\* an initialisation of its own.
CreateTarget ==
    /\ t_pc = "teacher_done"
    /\ target_model' = NewModel(t_args, t_args.seed + 1)
    /\ t_pc' = "target_created"
    /\ UNCHANGED <<t_args, model, teacher_model>>
    /\ UNCHANGED <<sampleVars, precondVars, unetVars, convVars>>

\* The zip loop that copies the student into the target.
CopyToTarget ==
    /\ t_pc = "target_created"
    /\ target_model' = CopyParams(target_model, model)
    /\ t_pc' = "target_copied"
    /\ UNCHANGED <<t_args, model, teacher_model>>
    /\ UNCHANGED <<sampleVars, precondVars, unetVars, convVars>>

\* The conversion of the target, then `if args.edm_nn_ncsn:
\* target_model.model.map_noise.freqs = teacher_model.model.model.map_noise.freqs`,
\* which reads an attribute of None when there is no teacher.
ConvertTarget ==
    /\ t_pc = "target_copied"
    /\ LET dt == TrainDtype(t_args) IN
       IF dt # "float32" /\ t_args.aux
       THEN /\ target_model' = ConvertParams(target_model, dt)
            /\ t_pc' = "AttributeError_weight"
       ELSE /\ target_model' = IF dt = "float32" THEN target_model
                               ELSE ConvertParams(target_model, dt)
            /\ t_pc' = IF t_args.edm_nn_ncsn /\ ~HasTeacher(t_args)
                       THEN "AttributeError_teacher_model" ELSE "target_converted"
    /\ UNCHANGED <<t_args, model, teacher_model>>
    /\ UNCHANGED <<sampleVars, precondVars, unetVars, convVars>>

\* CMTrainLoop(model=model, target_model=target_model, teacher_model=teacher_model, ...)
ConstructTrainLoop ==
    /\ t_pc = "target_converted"
    /\ t_pc' = "CMTrainLoop"
    /\ UNCHANGED <<t_args, model, teacher_model, target_model>>
    /\ UNCHANGED <<sampleVars, precondVars, unetVars, convVars>>

NextTrain ==
    \/ CreateModel
    \/ ConvertModel
    \/ LoadTeacher
    \/ CreateTarget
    \/ CopyToTarget
    \/ ConvertTarget
    \/ ConstructTrainLoop

SpecTrain == InitTrain /\ [][NextTrain]_vars

\* The student's parameter i was loaded from the teacher.
Loaded(i) == HasTeacher(t_args) /\ LoadedFrom(model[i].name, teacher_model, t_args) # 0

\* C7: when CMTrainLoop is constructed, every parameter of target_model has
\* the value (and the dtype) of the student's parameter at the same position,
\* that value being the one the teacher's weights left in the student where
\* they were loaded, and the torso of both is in the dtype use_fp16 /
\* use_bf16 select (float16 first, else bfloat16, else left in float32).
C7_TargetIsStudentCopy ==
    t_pc = "CMTrainLoop" =>
        /\ Len(target_model) = Len(model)
        /\ \A i \in DOMAIN model :
            /\ target_model[i].value = model[i].value
            /\ target_model[i].dtype = model[i].dtype
            /\ model[i].dtype = IF model[i].torso THEN TrainDtype(t_args) ELSE "float32"
            /\ Loaded(i) =>
                target_model[i].value =
                    Cast(teacher_model[LoadedFrom(model[i].name, teacher_model, t_args)].value,
                         model[i].dtype)

\* CMTrainLoop is constructed after a float16 conversion and a teacher load
\* under linear probing that changed the student, a *_train parameter among
\* those loaded.
C7_Witness ==
    /\ t_pc = "CMTrainLoop"
    /\ t_args.use_fp16 /\ t_args.linear_probing /\ HasTeacher(t_args)
    /\ \A i \in DOMAIN model : Loaded(i)
    /\ \E i \in DOMAIN model :
        /\ model[i].torso
        /\ target_model[i].value # Cast(NewModel(t_args, t_args.seed)[i].value, "float16")
        /\ target_model[i].value # NewModel(t_args, t_args.seed + 1)[i].value


\* The student's name with '_train' removed from every component.
C14_Plain(name) == [k \in DOMAIN name |-> [base |-> name[k].base, train |-> FALSE]]

\* The teacher's name equals the student's, verbatim or after dropping the
\* teacher name's first dotted component.
C14_SameName(dst_name, src_name) ==
    \/ src_name = dst_name
    \/ src_name # <<>> /\ Tail(src_name) = dst_name

\* As C14_SameName, and under linear_probing also for the student's name
\* with '_train' removed.
C14_SameOrPlainName(dst_name, src_name) ==
    \/ C14_SameName(dst_name, src_name)
    \/ t_args.linear_probing /\ C14_SameName(C14_Plain(dst_name), src_name)

\* The step of the teacher-to-student initialisation, for a given reading of
\* which teacher names match a student name: a student parameter takes the
\* value of the first teacher parameter that matches, cast to its own dtype,
\* and is left as it was when none matches; the teacher holds the values of
\* its checkpoint, and no other step changes it.
C14_InitStep(Match(_, _)) ==
    IF t_pc = "model_converted" /\ HasTeacher(t_args)
    THEN /\ Len(model') = Len(model)
         /\ \A i \in DOMAIN model :
              LET hits == {j \in DOMAIN teacher_model' :
                              Match(model[i].name, teacher_model'[j].name)}
              IN IF hits = {} THEN model'[i] = model[i]
                 ELSE LET first == CHOOSE j \in hits : \A k \in hits : j <= k
                      IN model'[i] = [model[i] EXCEPT
                            !.value = Cast(teacher_model'[first].value, model[i].dtype)]
         /\ ~t_args.linear_probing =>
              \A i \in DOMAIN model :
                  (\E k \in DOMAIN model[i].name : model[i].name[k].train) =>
                      model'[i] = model[i]
         /\ \A j \in DOMAIN teacher_model' :
              teacher_model'[j].value = (t_args.teacher_seed + j) % (MaxValue + 1)
    ELSE teacher_model' = teacher_model

=============================================================================
